---------------------------- MODULE Spec2Model ----------------------------
(***************************************************************************)
(* Decoder of the binary code requirement language                         *)
(* (tugger-apple-codesign/src/code_requirement.rs).                        *)
(*                                                                         *)
(* The decoder is a set of pure functions over byte slices.  A slice is a  *)
(* sequence of bytes (0..255); `&data[a..b]` is SubSeq(data, a+1, b) and   *)
(* aborts the program (a Rust panic) when a or b lies beyond the length.   *)
(* Every function returns one of                                           *)
(*    Ok(value, rest)   the decoded value and the remaining slice          *)
(*    Err(error)        a CodeRequirementError returned by value           *)
(*    Panic(why)        the call aborted; no value is returned             *)
(*                                                                         *)
(* Numbers.  The model checker's integers are 32 bits wide, so a u32 read  *)
(* from the input is kept as two 16 bit digits [hi, lo] (value hi * 2^16 + *)
(* lo) and an i64 as four.  A u32 used as a usize saturates at UsizeCap,   *)
(* which is larger than every slice of the model: any index at or above    *)
(* it is out of range exactly like the true value.  usize is 64 bits wide: *)
(* 4 + length never overflows.                                             *)
(***************************************************************************)
EXTENDS Integers, Sequences, FiniteSets, TLC

VARIABLES
    data,      \* the input slice handed to the decoder
    call,      \* the entry point that was called on it ("none" before the call)
    result     \* what the call returned

vars == <<data, call, result>>

-----------------------------------------------------------------------------
(* Results *)

Ok(value, rest) == [tag |-> "Ok", value |-> value, rest |-> rest]

Err(error) == [tag |-> "Err", error |-> error]

Panic(why) == [tag |-> "Panic", why |-> why]

IsOk(r) == r.tag = "Ok"

IsErr(r) == r.tag = "Err"

IsPanic(r) == r.tag = "Panic"

(* enum CodeRequirementError *)
UnknownOpCode(v) == <<"UnknownOpCode", v>>

UnknownMatch(v) == <<"UnknownMatch", v>>

Scroll == <<"Scroll">>

Malformed(s) == <<"Malformed", s>>

-----------------------------------------------------------------------------
(* Slices and fixed-width big-endian reads (scroll::Pread) *)

\* &data[from..]; the caller has established from <= Len(data)
SliceFrom(s, from) == SubSeq(s, from + 1, Len(s))

\* &data[from..to]; the caller has established from <= to <= Len(data)
Slice(s, from, to) == SubSeq(s, from + 1, to)

\* pread_with::<T>(offset, BE) succeeds iff size bytes lie at offset
CanRead(s, offset, size) == offset + size <= Len(s)

Digit16(s, offset) == s[offset + 1] * 256 + s[offset + 2]

\* u32, big endian, as two 16 bit digits
U32At(s, offset) == [hi |-> Digit16(s, offset), lo |-> Digit16(s, offset + 2)]

U32(hi, lo) == [hi |-> hi, lo |-> lo]

\* mutant: the sign bit is dropped
I32At_masked(s, offset) ==
    (Digit16(s, offset) % 32768) * 65536 + Digit16(s, offset + 2)

\* i32, big endian, two's complement
I32At(s, offset) ==
    LET hi == Digit16(s, offset)
        lo == Digit16(s, offset + 2)
    IN  IF hi >= 32768 THEN (hi - 65536) * 65536 + lo ELSE hi * 65536 + lo

\* i64, big endian, as four 16 bit digits, most significant first; the first
\* digit carries the sign (two's complement)
I64At(s, offset) ==
    <<Digit16(s, offset), Digit16(s, offset + 2),
      Digit16(s, offset + 4), Digit16(s, offset + 6)>>

UsizeCap == 65536

\* `length as usize`
as_usize(u) == IF u.hi = 0 THEN u.lo ELSE UsizeCap

-----------------------------------------------------------------------------
(* read_data: a length-prefixed block followed by its alignment padding *)

\* mutant: always advances to the following boundary
AlignUp_next_boundary(offset) == offset + 4 - (offset % 4)

AlignUp(offset) ==
    IF offset % 4 = 0 THEN offset ELSE offset + 4 - (offset % 4)

\* mutant: padding bytes other than zero are refused
read_data_zero_padding(s) ==
    IF ~CanRead(s, 0, 4) THEN Err(Scroll)
    ELSE LET length == as_usize(U32At(s, 0))
         IN  IF 4 + length > Len(s) THEN Panic("slice index")
             ELSE LET value == Slice(s, 4, 4 + length)
                      offset == AlignUp(4 + length)
                  IN  IF offset > Len(s) THEN Panic("slice index")
                      ELSE IF \E i \in (4 + length + 1)..offset : s[i] # 0
                      THEN Err(Malformed("padding is not zero"))
                      ELSE Ok(value, SliceFrom(s, offset))

read_data(s) ==
    IF ~CanRead(s, 0, 4) THEN Err(Scroll)
    ELSE LET length == as_usize(U32At(s, 0))
         IN  IF 4 + length > Len(s) THEN Panic("slice index")
             ELSE LET value == Slice(s, 4, 4 + length)
                      offset == AlignUp(4 + length)
                  IN  IF offset > Len(s) THEN Panic("slice index")
                      ELSE Ok(value, SliceFrom(s, offset))

-----------------------------------------------------------------------------
(* std::str::from_utf8: whether the bytes are well-formed UTF-8 (RFC 3629) *)

IsCont(b) == b >= 128 /\ b <= 191

\* the length of the well-formed UTF-8 sequence starting at s[i], 0 if none
Utf8SeqLen(s, i) ==
    LET b0 == s[i]
        n  == Len(s)
        c(k) == i + k <= n /\ IsCont(s[i + k])
    IN  IF b0 <= 127 THEN 1
        ELSE IF b0 >= 194 /\ b0 <= 223 THEN (IF c(1) THEN 2 ELSE 0)
        ELSE IF b0 = 224
             THEN (IF c(1) /\ s[i + 1] >= 160 /\ c(2) THEN 3 ELSE 0)
        ELSE IF b0 = 237
             THEN (IF c(1) /\ s[i + 1] <= 159 /\ c(2) THEN 3 ELSE 0)
        ELSE IF b0 >= 225 /\ b0 <= 239
             THEN (IF c(1) /\ c(2) THEN 3 ELSE 0)
        ELSE IF b0 = 240
             THEN (IF c(1) /\ s[i + 1] >= 144 /\ c(2) /\ c(3) THEN 4 ELSE 0)
        ELSE IF b0 = 244
             THEN (IF c(1) /\ s[i + 1] <= 143 /\ c(2) /\ c(3) THEN 4 ELSE 0)
        ELSE IF b0 >= 241 /\ b0 <= 243
             THEN (IF c(1) /\ c(2) /\ c(3) THEN 4 ELSE 0)
        ELSE 0

RECURSIVE Utf8From(_, _)
Utf8From(s, i) ==
    IF i > Len(s) THEN TRUE
    ELSE LET k == Utf8SeqLen(s, i)
         IN  IF k = 0 THEN FALSE ELSE Utf8From(s, i + k)

from_utf8_ok(s) == Utf8From(s, 1)

-----------------------------------------------------------------------------
(* impl From<&[u8]> for CodeRequirementValue *)

is_ascii_alphanumeric(c) ==
    \/ c >= 48 /\ c <= 57
    \/ c >= 65 /\ c <= 90
    \/ c >= 97 /\ c <= 122

\* mutant: the vertical tab counts as whitespace
is_ascii_whitespace_vt(c) == c \in {32, 9, 10, 11, 12, 13}

is_ascii_whitespace(c) == c \in {32, 9, 10, 12, 13}

is_ascii_punctuation(c) ==
    \/ c >= 33 /\ c <= 47
    \/ c >= 58 /\ c <= 64
    \/ c >= 91 /\ c <= 96
    \/ c >= 123 /\ c <= 126

is_ascii_printable(c) ==
    is_ascii_alphanumeric(c) \/ is_ascii_whitespace(c) \/ is_ascii_punctuation(c)

CodeRequirementValue_from(value) ==
    IF \A i \in 1..Len(value) : is_ascii_printable(value[i])
    THEN <<"String", value>>
    ELSE <<"Bytes", value>>

-----------------------------------------------------------------------------
(* chrono::Utc.timestamp(value, 0): the instant `value` seconds after the  *)
(* Unix epoch; it aborts when the date lies outside the years              *)
(* -262144 ..= 262143 that chrono's dates cover.                           *)

\* 8210298412799, the last second of the year 262143, as i64 digits
TimestampMax == <<0, 1911, 39915, 40703>>

\* -8334632937600, the first second of the year -262144, as i64 digits
TimestampMin == <<65535, 63595, 28970, 6016>>

\* a <= b for digit strings of one sign
DigitsLe(a, b) ==
    \/ a = b
    \/ \E i \in 1..4 : a[i] < b[i] /\ \A j \in 1..(i - 1) : a[j] = b[j]

TimestampInRange(v) ==
    IF v[1] >= 32768 THEN DigitsLe(TimestampMin, v) ELSE DigitsLe(v, TimestampMax)

-----------------------------------------------------------------------------
(* enum MatchType, TryFrom<u32> for MatchType *)

MatchTypeName(v) ==
    CASE v = 0 -> "Exists"
      [] v = 1 -> "Equal"
      [] v = 2 -> "Contains"
      [] v = 3 -> "BeginsWith"
      [] v = 4 -> "EndsWith"
      [] v = 5 -> "LessThan"
      [] v = 6 -> "GreaterThan"
      [] v = 7 -> "LessThanEqual"
      [] v = 8 -> "GreaterThanEqual"
      [] v = 9 -> "On"
      [] v = 10 -> "Before"
      [] v = 11 -> "After"
      [] v = 12 -> "OnOrBefore"
      [] v = 13 -> "OnOrAfter"
      [] v = 14 -> "Absent"

\* mutant: reports the code cut to 24 bits, as an opcode value is
MatchType_try_from_masked(v) ==
    IF v.hi = 0 /\ v.lo <= 14 THEN Ok(MatchTypeName(v.lo), <<>>)
    ELSE Err(UnknownMatch([hi |-> v.hi % 256, lo |-> v.lo]))

\* Ok(the match type, nothing) or Err(UnknownMatch(v)); v is a u32
MatchType_try_from(v) ==
    IF v.hi = 0 /\ v.lo <= 14 THEN Ok(MatchTypeName(v.lo), <<>>)
    ELSE Err(UnknownMatch(v))

ValueMatchTypes ==
    {"Equal", "Contains", "BeginsWith", "EndsWith",
     "LessThan", "GreaterThan", "LessThanEqual", "GreaterThanEqual"}

TimestampMatchTypes == {"On", "Before", "After", "OnOrBefore", "OnOrAfter"}

\* mutant: the value of a comparison is read as a block without padding
MatchType_parse_payload_unpadded(typ, s) ==
    IF typ \in {"Exists", "Absent"} THEN Ok(<<typ>>, s)
    ELSE IF typ \in ValueMatchTypes
    THEN IF ~CanRead(s, 0, 4) THEN Err(Scroll)
         ELSE LET length == as_usize(U32At(s, 0))
              IN  IF 4 + length > Len(s) THEN Panic("slice index")
                  ELSE Ok(<<typ, CodeRequirementValue_from(Slice(s, 4, 4 + length))>>,
                          SliceFrom(s, 4 + length))
    ELSE IF ~CanRead(s, 0, 8) THEN Err(Scroll)
         ELSE LET value == I64At(s, 0)
              IN  IF ~TimestampInRange(value) THEN Panic("timestamp")
                  ELSE Ok(<<typ, value>>, SliceFrom(s, 8))

(* MatchType::parse_payload *)
MatchType_parse_payload(typ, s) ==
    IF typ \in {"Exists", "Absent"} THEN Ok(<<typ>>, s)
    ELSE IF typ \in ValueMatchTypes
    THEN LET r == read_data(s)
         IN  IF ~IsOk(r) THEN r
             ELSE Ok(<<typ, CodeRequirementValue_from(r.value)>>, r.rest)
    ELSE \* the five timestamp comparisons
         IF ~CanRead(s, 0, 8) THEN Err(Scroll)
         ELSE LET value == I64At(s, 0)
              IN  IF ~TimestampInRange(value) THEN Panic("timestamp")
                  ELSE Ok(<<typ, value>>, SliceFrom(s, 8))

\* mutant: the payload is read from the slice that still holds the code
CodeRequirementMatchExpression_from_bytes_code_kept(s) ==
    IF ~CanRead(s, 0, 4) THEN Err(Scroll)
    ELSE LET typ == MatchType_try_from(U32At(s, 0))
         IN  IF ~IsOk(typ) THEN typ
             ELSE MatchType_parse_payload(typ.value, s)

(* CodeRequirementMatchExpression::from_bytes *)
CodeRequirementMatchExpression_from_bytes(s) ==
    IF ~CanRead(s, 0, 4) THEN Err(Scroll)
    ELSE LET typ == MatchType_try_from(U32At(s, 0))
         IN  IF ~IsOk(typ) THEN typ
             ELSE MatchType_parse_payload(typ.value, SliceFrom(s, 4))

-----------------------------------------------------------------------------
(* const OPCODE_FLAG_MASK = 0xff000000, OPCODE_VALUE_MASK = 0x00ffffff:    *)
(* the two parts of an opcode word                                         *)

\* opcode_raw & OPCODE_FLAG_MASK, as the value of the high byte
OpcodeFlags(raw) == raw.hi \div 256

\* mutant: the mask 0x7fffffff, which keeps seven flag bits in the value
OpcodeValue_mask31(raw) == (raw.hi % 32768) * 65536 + raw.lo

\* opcode_raw & OPCODE_VALUE_MASK (24 bits)
OpcodeValue(raw) == (raw.hi % 256) * 65536 + raw.lo

(* enum RequirementOpCode, TryFrom<u32> for RequirementOpCode *)

RequirementOpCodeName(v) ==
    CASE v = 0 -> "False"
      [] v = 1 -> "True"
      [] v = 2 -> "Identifier"
      [] v = 3 -> "AnchorApple"
      [] v = 4 -> "AnchorCertificateHash"
      [] v = 5 -> "InfoKeyValueLegacy"
      [] v = 6 -> "And"
      [] v = 7 -> "Or"
      [] v = 8 -> "CodeDirectoryHash"
      [] v = 9 -> "Not"
      [] v = 10 -> "InfoPlistExpression"
      [] v = 11 -> "CertificateField"
      [] v = 12 -> "CertificateTrusted"
      [] v = 13 -> "AnchorTrusted"
      [] v = 14 -> "CertificateGeneric"
      [] v = 15 -> "AnchorAppleGeneric"
      [] v = 16 -> "EntitlementsField"
      [] v = 17 -> "CertificatePolicy"
      [] v = 18 -> "NamedAnchor"
      [] v = 19 -> "NamedCode"
      [] v = 20 -> "Platform"
      [] v = 21 -> "Notarized"
      [] v = 22 -> "CertificateFieldDate"
      [] v = 23 -> "LegacyDeveloperId"

\* mutant: dispatches on the low byte of the value alone
RequirementOpCode_try_from_low_byte(v) ==
    IF v % 256 <= 23 THEN Ok(RequirementOpCodeName(v % 256), <<>>)
    ELSE Err(UnknownOpCode(v))

\* Ok(the opcode, nothing) or Err(UnknownOpCode(v)); v is the 24 bit value
RequirementOpCode_try_from(v) ==
    IF v <= 23 THEN Ok(RequirementOpCodeName(v), <<>>)
    ELSE Err(UnknownOpCode(v))

\* the expression variant each opcode decodes to (two are named differently)
VariantOf(opcode) ==
    CASE opcode = "InfoPlistExpression" -> "InfoPlistKeyField"
      [] opcode = "EntitlementsField" -> "EntitlementsKey"
      [] OTHER -> opcode

\* the static message of each text field's UTF-8 failure
Utf8Message(opcode, field) ==
    CASE opcode = "Identifier" -> "identifier value not a UTF-8 string"
      [] opcode = "InfoKeyValueLegacy" /\ field = 1 -> "info key not a UTF-8 string"
      [] opcode = "InfoKeyValueLegacy" /\ field = 2 -> "info value not a UTF-8 string"
      [] opcode = "InfoPlistExpression" -> "key is not valid UTF-8"
      [] opcode = "CertificateField" -> "certificate field is not valid UTF-8"
      [] opcode = "EntitlementsField" -> "entitlement key is not UTF-8"
      [] opcode = "NamedAnchor" -> "named anchor isn't UTF-8"
      [] opcode = "NamedCode" -> "named code isn't UTF-8"

\* mutant: the text is not validated
read_str_unchecked(opcode, field, s) == read_data(s)

\* read_data followed by std::str::from_utf8(..).map_err(Malformed(..))?
read_str(opcode, field, s) ==
    LET r == read_data(s)
    IN  IF ~IsOk(r) THEN r
        ELSE IF ~from_utf8_ok(r.value) THEN Err(Malformed(Utf8Message(opcode, field)))
        ELSE r

NoPayloadOpCodes ==
    {"False", "True", "AnchorApple", "AnchorTrusted", "AnchorAppleGeneric",
     "Notarized", "LegacyDeveloperId"}

(* RequirementOpCode::parse_payload, one operator per group of match arms *)

\* Identifier, NamedAnchor, NamedCode: one text block
parse_payload_text(opcode, s) ==
    LET r == read_str(opcode, 1, s)
    IN  IF ~IsOk(r) THEN r ELSE Ok(<<VariantOf(opcode), r.value>>, r.rest)

\* AnchorCertificateHash: slot, digest length, digest
parse_payload_anchor_hash(s) ==
    IF ~CanRead(s, 0, 4) THEN Err(Scroll)
    ELSE IF ~CanRead(s, 4, 4) THEN Err(Scroll)
    ELSE LET slot == I32At(s, 0)
             digest_length == as_usize(U32At(s, 4))
         IN  IF 8 + digest_length > Len(s) THEN Panic("slice index")
             ELSE Ok(<<"AnchorCertificateHash", slot, Slice(s, 8, 8 + digest_length)>>,
                     SliceFrom(s, 8 + digest_length))

\* InfoKeyValueLegacy: key block, value block, both text
parse_payload_info_legacy(s) ==
    LET k == read_str("InfoKeyValueLegacy", 1, s)
    IN  IF ~IsOk(k) THEN k
        ELSE LET v == read_str("InfoKeyValueLegacy", 2, k.rest)
             IN  IF ~IsOk(v) THEN v
                 ELSE Ok(<<"InfoKeyValueLegacy", k.value, v.value>>, v.rest)

\* mutant: the digest is read without its alignment padding
parse_payload_cdhash_raw(s) ==
    IF ~CanRead(s, 0, 4) THEN Err(Scroll)
    ELSE LET length == as_usize(U32At(s, 0))
         IN  IF 4 + length > Len(s) THEN Panic("slice index")
             ELSE Ok(<<"CodeDirectoryHash", Slice(s, 4, 4 + length)>>,
                     SliceFrom(s, 4 + length))

\* CodeDirectoryHash: one block
parse_payload_cdhash(s) ==
    LET r == read_data(s)
    IN  IF ~IsOk(r) THEN r ELSE Ok(<<"CodeDirectoryHash", r.value>>, r.rest)

\* InfoPlistExpression, EntitlementsField: key text block, match expression
parse_payload_key_match(opcode, s) ==
    LET k == read_str(opcode, 1, s)
    IN  IF ~IsOk(k) THEN k
        ELSE LET m == CodeRequirementMatchExpression_from_bytes(k.rest)
             IN  IF ~IsOk(m) THEN m
                 ELSE Ok(<<VariantOf(opcode), k.value, m.value>>, m.rest)

\* CertificateField (text field name), CertificateGeneric, CertificatePolicy,
\* CertificateFieldDate (OID bytes): slot, block, match expression
parse_payload_slot_match(opcode, s) ==
    IF ~CanRead(s, 0, 4) THEN Err(Scroll)
    ELSE LET slot == I32At(s, 0)
             f == IF opcode = "CertificateField"
                  THEN read_str(opcode, 1, SliceFrom(s, 4))
                  ELSE read_data(SliceFrom(s, 4))
         IN  IF ~IsOk(f) THEN f
             ELSE LET m == CodeRequirementMatchExpression_from_bytes(f.rest)
                  IN  IF ~IsOk(m) THEN m
                      ELSE Ok(<<opcode, slot, f.value, m.value>>, m.rest)

\* mutant: a slot that is not there reads as 0
parse_payload_trusted_default(s) ==
    IF ~CanRead(s, 0, 4) THEN Ok(<<"CertificateTrusted", 0>>, <<>>)
    ELSE Ok(<<"CertificateTrusted", I32At(s, 0)>>, SliceFrom(s, 4))

\* CertificateTrusted: slot
parse_payload_trusted(s) ==
    IF ~CanRead(s, 0, 4) THEN Err(Scroll)
    ELSE Ok(<<"CertificateTrusted", I32At(s, 0)>>, SliceFrom(s, 4))

\* mutant: the value is read and the slice is returned as it was
parse_payload_platform_peek(s) ==
    IF ~CanRead(s, 0, 4) THEN Err(Scroll)
    ELSE Ok(<<"Platform", U32At(s, 0)>>, s)

\* Platform: u32
parse_payload_platform(s) ==
    IF ~CanRead(s, 0, 4) THEN Err(Scroll)
    ELSE Ok(<<"Platform", U32At(s, 0)>>, SliceFrom(s, 4))

RECURSIVE CodeRequirementExpression_from_bytes(_)
RECURSIVE RequirementOpCode_parse_payload(_, _)

\* mutant: the operand decoded second becomes the left child
parse_payload_binary_swapped(opcode, s) ==
    LET a == CodeRequirementExpression_from_bytes(s)
    IN  IF ~IsOk(a) THEN a
        ELSE LET b == CodeRequirementExpression_from_bytes(a.rest)
             IN  IF ~IsOk(b) THEN b
                 ELSE Ok(<<opcode, b.value, a.value>>, b.rest)

\* And, Or
parse_payload_binary(opcode, s) ==
    LET a == CodeRequirementExpression_from_bytes(s)
    IN  IF ~IsOk(a) THEN a
        ELSE LET b == CodeRequirementExpression_from_bytes(a.rest)
             IN  IF ~IsOk(b) THEN b
                 ELSE Ok(<<opcode, a.value, b.value>>, b.rest)

RequirementOpCode_parse_payload(opcode, s) ==
    IF opcode \in NoPayloadOpCodes THEN Ok(<<opcode>>, s)
    ELSE IF opcode \in {"Identifier", "NamedAnchor", "NamedCode"}
    THEN parse_payload_text(opcode, s)
    ELSE IF opcode = "AnchorCertificateHash" THEN parse_payload_anchor_hash(s)
    ELSE IF opcode = "InfoKeyValueLegacy" THEN parse_payload_info_legacy(s)
    ELSE IF opcode \in {"And", "Or"} THEN parse_payload_binary(opcode, s)
    ELSE IF opcode = "CodeDirectoryHash" THEN parse_payload_cdhash(s)
    ELSE IF opcode = "Not"
    THEN LET e == CodeRequirementExpression_from_bytes(s)
         IN  IF ~IsOk(e) THEN e ELSE Ok(<<"Not", e.value>>, e.rest)
    ELSE IF opcode \in {"InfoPlistExpression", "EntitlementsField"}
    THEN parse_payload_key_match(opcode, s)
    ELSE IF opcode \in {"CertificateField", "CertificateGeneric",
                        "CertificatePolicy", "CertificateFieldDate"}
    THEN parse_payload_slot_match(opcode, s)
    ELSE IF opcode = "CertificateTrusted" THEN parse_payload_trusted(s)
    ELSE parse_payload_platform(s)

(* CodeRequirementExpression::from_bytes *)
CodeRequirementExpression_from_bytes(s) ==
    IF ~CanRead(s, 0, 4) THEN Err(Scroll)
    ELSE LET opcode_raw == U32At(s, 0)
             opcode == RequirementOpCode_try_from(OpcodeValue(opcode_raw))
         IN  IF ~IsOk(opcode) THEN opcode
             ELSE RequirementOpCode_parse_payload(opcode.value, SliceFrom(s, 4))

-----------------------------------------------------------------------------
(* The calls of CodeRequirementExpression::from_bytes made while one call   *)
(* decodes s: the call itself and, below And, Or and Not, the calls that    *)
(* decode the operands.  A call is <<offset, depth, caller>>: where its     *)
(* slice starts in the input, how many calls enclose it, and where the      *)
(* slice of the enclosing call starts.                                      *)

\* mutant: an operand is decoded from the middle of the opcode word
RECURSIVE from_bytes_calls_half_word(_, _, _, _)
from_bytes_calls_half_word(s, offset, depth, caller) ==
    LET this == {<<offset, depth, caller>>}
        opcode == RequirementOpCode_try_from(OpcodeValue(U32At(s, 0)))
    IN  IF ~CanRead(s, 0, 4) THEN this
        ELSE IF ~IsOk(opcode) THEN this
        ELSE IF opcode.value \in {"And", "Or", "Not"}
        THEN this \cup from_bytes_calls_half_word(SliceFrom(s, 2), offset + 2,
                                                  depth + 1, offset)
        ELSE this

RECURSIVE from_bytes_calls(_, _, _, _)
from_bytes_calls(s, offset, depth, caller) ==
    LET this == {<<offset, depth, caller>>}
        opcode == RequirementOpCode_try_from(OpcodeValue(U32At(s, 0)))
        body == SliceFrom(s, 4)
        a == CodeRequirementExpression_from_bytes(body)
    IN  IF ~CanRead(s, 0, 4) THEN this
        ELSE IF ~IsOk(opcode) THEN this
        ELSE IF opcode.value \in {"And", "Or"}
        THEN this \cup from_bytes_calls(body, offset + 4, depth + 1, offset)
                  \cup (IF IsOk(a)
                        THEN from_bytes_calls(a.rest, offset + Len(s) - Len(a.rest),
                                              depth + 1, offset)
                        ELSE {})
        ELSE IF opcode.value = "Not"
        THEN this \cup from_bytes_calls(body, offset + 4, depth + 1, offset)
        ELSE this

-----------------------------------------------------------------------------
(* parse_code_requirements *)

\* mutant: each element is put in front of those decoded before it
RECURSIVE parse_elements_reversed(_, _, _)
parse_elements_reversed(count, elements, s) ==
    IF count = 0 THEN Ok(elements, s)
    ELSE LET res == CodeRequirementExpression_from_bytes(s)
         IN  IF ~IsOk(res) THEN res
             ELSE parse_elements_reversed(count - 1, <<res.value>> \o elements, res.rest)

\* mutant: a failing element ends the loop and the elements decoded before
\* it are returned
RECURSIVE parse_elements_partial(_, _, _)
parse_elements_partial(count, elements, s) ==
    IF count = 0 THEN Ok(elements, s)
    ELSE LET res == CodeRequirementExpression_from_bytes(s)
         IN  IF ~IsOk(res) THEN Ok(elements, s)
             ELSE parse_elements_partial(count - 1, Append(elements, res.value), res.rest)

\* the loop `for _ in 0..count`, with the elements decoded so far
RECURSIVE parse_elements(_, _, _)
parse_elements(count, elements, s) ==
    IF count = 0 THEN Ok(elements, s)
    ELSE LET res == CodeRequirementExpression_from_bytes(s)
         IN  IF ~IsOk(res) THEN res
             ELSE parse_elements(count - 1, Append(elements, res.value), res.rest)

\* the number of calls of from_bytes the loop makes
RECURSIVE parse_elements_steps(_, _)
parse_elements_steps(count, s) ==
    IF count = 0 THEN 0
    ELSE LET res == CodeRequirementExpression_from_bytes(s)
         IN  IF ~IsOk(res) THEN 1
             ELSE 1 + parse_elements_steps(count - 1, res.rest)

\* Vec::with_capacity(count) only reserves room; memory is not modelled and
\* the reservation succeeds.
parse_code_requirements(s) ==
    IF ~CanRead(s, 0, 4) THEN Err(Scroll)
    ELSE LET count == as_usize(U32At(s, 0))
         IN  parse_elements(count, <<>>, SliceFrom(s, 4))

-----------------------------------------------------------------------------
(* parse_code_requirement_blob.  The header is read by                      *)
(* crate::macho::read_and_validate_blob_header, whose code is not part of   *)
(* the sources at hand; it is modelled from its contract in the             *)
(* specification: a blob starts with a 4 byte magic and a 4 byte total      *)
(* length that includes the header; the helper consumes the header and      *)
(* returns the inner bytes, or fails when the magic is not the expected one *)
(* or the length is inconsistent.  A length is taken to be consistent when  *)
(* it covers the header and does not run past the input; the inner bytes    *)
(* are those the length covers.                                             *)

\* CodeSigningMagic::Requirement, 0xfade0c00
RequirementMagic == [hi |-> 64222, lo |-> 3072]

read_and_validate_blob_header(s, expected_magic) ==
    IF ~CanRead(s, 0, 8) THEN Err(<<"BlobHeader", "truncated">>)
    ELSE IF U32At(s, 0) # expected_magic THEN Err(<<"BlobHeader", "magic">>)
    ELSE LET length == as_usize(U32At(s, 4))
         IN  IF length < 8 \/ length > Len(s)
             THEN Err(<<"BlobHeader", "length">>)
             ELSE Ok(Slice(s, 8, length), <<>>)

\* mutant: the helper's error is passed on as it is
parse_code_requirement_blob_raw_error(s) ==
    LET header == read_and_validate_blob_header(s, RequirementMagic)
    IN  IF ~IsOk(header) THEN header
        ELSE parse_code_requirements(header.value)

\* mutant: the list is decoded from the start of the blob
parse_code_requirement_blob_whole(s) ==
    LET header == read_and_validate_blob_header(s, RequirementMagic)
    IN  IF ~IsOk(header) THEN Err(Malformed("malformed blob header"))
        ELSE parse_code_requirements(s)

parse_code_requirement_blob(s) ==
    LET header == read_and_validate_blob_header(s, RequirementMagic)
    IN  IF ~IsOk(header) THEN Err(Malformed("malformed blob header"))
        ELSE parse_code_requirements(header.value)

-----------------------------------------------------------------------------
(* impl Display: the text of a value, a match expression and an expression. *)
(* A text is the sequence of the fragments written to the formatter: the    *)
(* literal pieces of each format string, <<"lit", piece>>, and between them *)
(* what the formatter of each operand writes.  The operands formatted by    *)
(* other crates and the standard library are kept as they are handed over:  *)
(* <<"str", bytes>> a string, <<"hex", bytes>> hex::encode, <<"i32", n>>    *)
(* and <<"u32", v>> decimal numbers, <<"datetime", v>> chrono's DateTime,   *)
(* <<"oid", bytes>> bcder's Oid.  A formatter returns its text or aborts.   *)

Returned(value) == [tag |-> "Returned", value |-> value]

\* f.write_str(piece)
write_str(piece) == Returned(<<<<"lit", piece>>>>)

\* f.write_fmt(format_args!(..)): the parts are written in turn; the first
\* one whose formatter aborts ends the call
RECURSIVE write_fmt(_)
write_fmt(parts) ==
    IF Len(parts) = 0 THEN Returned(<<>>)
    ELSE IF IsPanic(Head(parts)) THEN Head(parts)
    ELSE LET rest == write_fmt(Tail(parts))
         IN  IF IsPanic(rest) THEN rest
             ELSE Returned(Head(parts).value \o rest.value)

Display_str(bytes) == Returned(<<<<"str", bytes>>>>)

hex_encode(bytes) == Returned(<<<<"hex", bytes>>>>)

Display_i32(n) == Returned(<<<<"i32", n>>>>)

Display_u32(v) == Returned(<<<<"u32", v>>>>)

Display_DateTime(v) == Returned(<<<<"datetime", v>>>>)

\* bcder's Display for Oid walks the components of the identifier; each ends
\* at a byte below 0x80, and the walk aborts ("illegal object identifier")
\* when the bytes end within a component.  Oid(oid) wraps the block as read.
Display_Oid(bytes) ==
    IF Len(bytes) > 0 /\ bytes[Len(bytes)] >= 128
    THEN Panic("illegal object identifier")
    ELSE Returned(<<<<"oid", bytes>>>>)

(* impl Display for CodeRequirementValue *)
Display_CodeRequirementValue(v) ==
    IF v[1] = "String" THEN Display_str(v[2]) ELSE hex_encode(v[2])

(* impl Display for CodeRequirementMatchExpression *)
Display_CodeRequirementMatchExpression(m) ==
    LET typ == m[1]
        value == Display_CodeRequirementValue(m[2])
        instant == Display_DateTime(m[2])
        q == write_str("\"")
    IN  CASE typ = "Exists" -> write_str("/* exists */")
          [] typ = "Equal" -> write_fmt(<<write_str("= \""), value, q>>)
          [] typ = "Contains" -> write_fmt(<<write_str("~ \""), value, q>>)
          [] typ = "BeginsWith" -> write_fmt(<<write_str("= \""), value, write_str("*\"")>>)
          [] typ = "EndsWith" -> write_fmt(<<write_str("= \"*"), value, q>>)
          [] typ = "LessThan" -> write_fmt(<<write_str("< \""), value, q>>)
          [] typ = "GreaterThan" -> write_fmt(<<write_str("> \""), value, q>>)
          [] typ = "LessThanEqual" -> write_fmt(<<write_str("<= \""), value, q>>)
          [] typ = "GreaterThanEqual" -> write_fmt(<<write_str(">= \""), value, q>>)
          [] typ = "On" -> write_fmt(<<write_str("= \""), instant, q>>)
          [] typ = "Before" -> write_fmt(<<write_str("< \""), instant, q>>)
          [] typ = "After" -> write_fmt(<<write_str("> \""), instant, q>>)
          [] typ = "OnOrBefore" -> write_fmt(<<write_str("<= \""), instant, q>>)
          [] typ = "OnOrAfter" -> write_fmt(<<write_str(">= \""), instant, q>>)
          [] typ = "Absent" -> write_str("absent")

(* impl Display for CodeRequirementExpression *)
RECURSIVE Display_CodeRequirementExpression(_)
Display_CodeRequirementExpression(e) ==
    LET v == e[1]
        lit(piece) == write_str(piece)
        sub(x) == Display_CodeRequirementExpression(x)
        match(x) == Display_CodeRequirementMatchExpression(x)
    IN  CASE v = "False" -> write_str("never")
          [] v = "True" -> write_str("always")
          [] v = "Identifier" -> write_fmt(<<lit("identifier "), Display_str(e[2])>>)
          [] v = "AnchorApple" -> write_str("anchor apple")
          [] v = "AnchorCertificateHash" ->
                write_fmt(<<lit("anchor "), Display_i32(e[2]), lit(" H\""),
                            hex_encode(e[3]), lit("\"")>>)
          [] v = "InfoKeyValueLegacy" ->
                write_fmt(<<lit("info["), Display_str(e[2]), lit("] = \""),
                            Display_str(e[3]), lit("\"")>>)
          [] v = "And" ->
                write_fmt(<<lit("("), sub(e[2]), lit(") and ("), sub(e[3]), lit(")")>>)
          [] v = "Or" ->
                write_fmt(<<lit("("), sub(e[2]), lit(") or ("), sub(e[3]), lit(")")>>)
          [] v = "CodeDirectoryHash" ->
                write_fmt(<<lit("cdhash H\""), hex_encode(e[2]), lit("\"")>>)
          [] v = "Not" -> write_fmt(<<lit("!("), sub(e[2]), lit(")")>>)
          [] v = "InfoPlistKeyField" ->
                write_fmt(<<lit("info ["), Display_str(e[2]), lit("] "), match(e[3])>>)
          [] v = "CertificateField" ->
                write_fmt(<<lit("certificate "), Display_i32(e[2]), lit(" ["),
                            Display_str(e[3]), lit("] "), match(e[4])>>)
          [] v = "CertificateTrusted" ->
                write_fmt(<<lit("certificate "), Display_i32(e[2]), lit(" trusted")>>)
          [] v = "AnchorTrusted" -> write_str("anchor trusted")
          [] v = "CertificateGeneric" ->
                write_fmt(<<lit("certificate "), Display_i32(e[2]), lit(" [field."),
                            Display_Oid(e[3]), lit("] "), match(e[4])>>)
          [] v = "AnchorAppleGeneric" -> write_str("anchor apple generic")
          [] v = "EntitlementsKey" ->
                write_fmt(<<lit("entitlement ["), Display_str(e[2]), lit("] "),
                            match(e[3])>>)
          [] v = "CertificatePolicy" ->
                write_fmt(<<lit("certificate "), Display_i32(e[2]), lit(" [policy."),
                            Display_Oid(e[3]), lit("] "), match(e[4])>>)
          [] v = "NamedAnchor" -> write_fmt(<<lit("anchor apple "), Display_str(e[2])>>)
          [] v = "NamedCode" -> write_fmt(<<lit("("), Display_str(e[2]), lit(")")>>)
          [] v = "Platform" -> write_fmt(<<lit("platform = "), Display_u32(e[2])>>)
          [] v = "Notarized" -> write_str("notarized")
          [] v = "CertificateFieldDate" ->
                write_fmt(<<lit("certificate "), Display_i32(e[2]), lit(" [timestamp."),
                            Display_Oid(e[3]), lit("] "), match(e[4])>>)
          [] v = "LegacyDeveloperId" -> write_str("legacy")

-----------------------------------------------------------------------------
(* The inputs. The decoder reads untrusted bytes, so the inputs are the    *)
(* wire encodings of small expressions, match expressions and blocks, with  *)
(* well-formed and ill-formed fields (unknown codes, flag bits, text that   *)
(* is not UTF-8, lengths beyond the input), every prefix of each (an input  *)
(* cut short anywhere) and each followed by trailing bytes.                 *)

MaxBlockLen == 5    \* payload lengths 0..MaxBlockLen: every residue modulo 4

MaxTrail == 2       \* trailing bytes after an encoding: 0..MaxTrail words

MaxCount == 2       \* expressions in a list

MaxDepth == 4       \* Not words in a row

\* a small number as a big-endian u32
BE32(n) == <<0, 0, n \div 256, n % 256>>

Fill(n, b) == [i \in 1..n |-> b]

Pad(n) == Fill((4 - (n % 4)) % 4, 0)

\* a length-prefixed block with its alignment padding
Block(bytes) == BE32(Len(bytes)) \o bytes \o Pad(Len(bytes))

\* a length-prefixed block without padding
RawBlock(bytes) == BE32(Len(bytes)) \o bytes

\* ASCII text of every length, the same with a first byte that is not UTF-8,
\* and a two byte UTF-8 character
TextPayloads ==
    {Fill(n, 97) : n \in 0..MaxBlockLen}
      \cup {<<255>> \o Fill(n - 1, 97) : n \in 1..MaxBlockLen}
      \cup {<<195, 169>>}

\* object identifiers whose last component is not ended: the last byte has
\* its high bit set
UnfinishedOids == {<<128>>, <<85, 4, 129>>}

\* the payloads of the fields that precede a match expression
KeyPayloads == {<<107, 101, 121>>, <<255, 97>>, <<85, 4, 3, 1>>}

DigestPayloads == {Fill(n, 222) : n \in 0..MaxBlockLen}

\* text, a control byte, one byte, nothing, the vertical tab (not among the
\* ASCII whitespace), a byte beyond ASCII
ValuePayloads ==
    {<<118, 97, 108, 117, 101>>, <<1, 97>>, <<97>>, <<>>, <<97, 11>>, <<128>>}

\* -1, 1, i32::MIN
SlotWords == {<<255, 255, 255, 255>>, <<0, 0, 0, 1>>, <<128, 0, 0, 0>>}

\* 1616890416 (the source's test), -1, and two values no date can hold
TimestampWords ==
    {<<0, 0, 0, 0, 96, 95, 202, 48>>,
     <<255, 255, 255, 255, 255, 255, 255, 255>>,
     <<127, 255, 255, 255, 255, 255, 255, 255>>,
     <<128, 0, 0, 0, 0, 0, 0, 0>>}

\* match codes beyond the known ones: 15, 255, 2^8, 2^32 - 1
UnknownMatchWords ==
    {<<0, 0, 0, 15>>, <<0, 0, 0, 255>>, <<0, 0, 1, 0>>, <<255, 255, 255, 255>>}

\* opcode values beyond the known ones: 24, 255, 2^8, 2^24 - 1
UnknownOpValues == {<<0, 0, 24>>, <<0, 0, 255>>, <<0, 1, 0>>, <<255, 255, 255>>}

\* the flag bytes: none, OPCODE_FLAG_DEFAULT_FALSE, OPCODE_FLAG_SKIP, all
FlagBytes == {0, 128, 64, 255}

\* an opcode word with flag byte f and a known opcode v
Op(f, v) == <<f, 0, 0, v>>

MatchEncodings ==
    {BE32(0), BE32(14)}
      \cup {BE32(c) \o Block(v) : c \in 1..8, v \in ValuePayloads}
      \cup {BE32(c) \o t : c \in 9..13, t \in TimestampWords}
      \cup UnknownMatchWords

\* the match expressions that follow a key in the compound encodings
KeyedMatchEncodings ==
    {BE32(0), BE32(14), BE32(1) \o Block(<<118, 97, 108, 117, 101>>),
     BE32(8) \o Block(<<1, 97>>), BE32(9) \o <<0, 0, 0, 0, 96, 95, 202, 48>>,
     BE32(13) \o <<127, 255, 255, 255, 255, 255, 255, 255>>,
     <<0, 0, 0, 15>>, <<255, 255, 255, 255>>}

LeafEncodings ==
    {Op(f, v) : f \in FlagBytes, v \in {0, 1, 3, 13, 15, 21, 23}}
      \cup {<<f>> \o v : f \in {0, 128}, v \in UnknownOpValues}
      \cup {Op(0, v) \o Block(t) : v \in {2, 18, 19}, t \in TextPayloads}
      \cup {Op(0, 8) \o Block(d) : d \in DigestPayloads}
      \cup {Op(0, 4) \o w \o RawBlock(d) : w \in SlotWords, d \in DigestPayloads}
      \cup {Op(0, 5) \o Block(k) \o Block(v) : k \in KeyPayloads, v \in KeyPayloads}
      \cup {Op(0, v) \o Block(k) \o m :
              v \in {10, 16}, k \in KeyPayloads, m \in KeyedMatchEncodings}
      \cup {Op(0, v) \o w \o Block(k) \o m :
              v \in {11, 14, 17, 22}, w \in {<<255, 255, 255, 255>>, <<0, 0, 0, 1>>},
              k \in KeyPayloads, m \in KeyedMatchEncodings}
      \cup {Op(0, v) \o w : v \in {12, 20}, w \in SlotWords}
      \cup {Op(0, v) \o BE32(1) \o Block(k) \o BE32(0) :
              v \in {14, 17, 22}, k \in UnfinishedOids}

\* the operands of the connectives
OperandEncodings ==
    {Op(0, 0), Op(128, 1), Op(0, 2) \o Block(<<97>>),
     Op(0, 4) \o <<255, 255, 255, 255>> \o RawBlock(<<222>>),
     Op(0, 8) \o Block(<<222, 173>>), Op(0, 9) \o Op(0, 1), <<0, 0, 0, 24>>}

ConnectiveEncodings ==
    {Op(0, v) \o a \o b : v \in {6, 7}, a \in OperandEncodings, b \in OperandEncodings}
      \cup {Op(0, 9) \o a : a \in OperandEncodings}
      \cup {Op(0, 6) \o Op(0, 7) \o Op(0, 1) \o Op(0, 0) \o Op(0, 9) \o Op(0, 3)}

RECURSIVE Repeat(_, _)
Repeat(w, k) == IF k = 0 THEN <<>> ELSE w \o Repeat(w, k - 1)

\* Not of Not of .. of True
NotChains == {Repeat(Op(0, 9), k) \o Op(0, 1) : k \in 1..MaxDepth}

ExpressionEncodings == LeafEncodings \cup ConnectiveEncodings \cup NotChains

RECURSIVE Lists(_)
\* the concatenations of n operand encodings
Lists(n) ==
    IF n = 0 THEN {<<>>}
    ELSE {e \o l : e \in OperandEncodings, l \in Lists(n - 1)}

\* a count word and that many expressions, one expression more, or one less
ListEncodings ==
    {BE32(1) \o e : e \in ExpressionEncodings}
      \cup UNION {{BE32(n) \o l : l \in Lists(n)} : n \in 0..MaxCount}
      \cup {BE32(n) \o l : n \in 1..3, l \in Lists(1)}
      \cup {<<255, 255, 255, 255>>, <<0, 1, 0, 0>> \o Op(0, 1)}
      \cup {BE32(2) \o Op(0, 12) \o <<255, 255, 255, 255>>
                     \o Op(0, 20) \o <<255, 255, 255, 255>>}

\* a blob: the magic, the total length, the payload
Blob(magic, payload) == magic \o BE32(8 + Len(payload)) \o payload

\* 0xfade0c00
RequirementMagicBytes == <<250, 222, 12, 0>>

\* the magics of other blobs (0xfade0c01, 0xfade0c02) and one that differs in
\* its first half only
OtherMagics == {<<250, 222, 12, 1>>, <<250, 222, 12, 2>>, <<250, 223, 12, 0>>}

\* lists that decode, and lists whose decode fails or aborts
BlobPayloads ==
    UNION {{BE32(n) \o l : l \in Lists(n)} : n \in 0..1}
      \cup {BE32(2) \o Op(0, 2) \o Block(<<97>>) \o Op(0, 9) \o Op(0, 1),
            BE32(2) \o Op(0, 1), BE32(1) \o Op(0, 2) \o BE32(5) \o <<97>>}

\* well-formed blobs, blobs of another magic, and blobs whose length does
\* not cover the header or runs past the input
BlobEncodings ==
    {Blob(RequirementMagicBytes, p) : p \in BlobPayloads}
      \cup {Blob(m, p) : m \in OtherMagics,
                         p \in {BE32(1) \o Op(0, 0), BE32(1) \o Op(0, 2) \o BE32(5)}}
      \cup {RequirementMagicBytes \o n \o BE32(1) \o Op(0, 0) :
              n \in {BE32(0), BE32(7), BE32(17), <<0, 1, 0, 0>>, <<255, 255, 255, 255>>}}

\* byte blocks as the value classifier gets them: every single byte, and the
\* payloads of the blocks
RawValues == {<<b>> : b \in 0..255} \cup ValuePayloads \cup TextPayloads

BlockEncodings ==
    {Block(t) : t \in TextPayloads} \cup {<<0, 1, 0, 0>>, <<255, 255, 255, 255>>}

Encodings ==
    BlockEncodings \cup MatchEncodings \cup ExpressionEncodings \cup ListEncodings
      \cup BlobEncodings \cup RawValues

Prefixes(s) == {SubSeq(s, 1, n) : n \in 0..Len(s)}

\* trailing bytes: whole words (an opcode, a zero word) and a lone byte
Trailers ==
    {Fill(n, 0) : n \in 0..(4 * MaxTrail)} \cup {Op(0, 1), <<7>>}

Inputs ==
    UNION {Prefixes(e) : e \in Encodings}
      \cup {e \o t : e \in Encodings, t \in Trailers}

-----------------------------------------------------------------------------
(* The state machine: an input is chosen, then one entry point is called    *)
(* on it.                                                                   *)

Init ==
    /\ data \in Inputs
    /\ call = "none"
    /\ result = [tag |-> "None"]

Call_read_data ==
    /\ call = "none"
    /\ call' = "read_data"
    /\ result' = read_data(data)
    /\ UNCHANGED data

Call_match_from_bytes ==
    /\ call = "none"
    /\ call' = "match"
    /\ result' = CodeRequirementMatchExpression_from_bytes(data)
    /\ UNCHANGED data

Call_expression_from_bytes ==
    /\ call = "none"
    /\ call' = "expression"
    /\ result' = CodeRequirementExpression_from_bytes(data)
    /\ UNCHANGED data

Call_parse_code_requirements ==
    /\ call = "none"
    /\ call' = "list"
    /\ result' = parse_code_requirements(data)
    /\ UNCHANGED data

Call_parse_code_requirement_blob ==
    /\ call = "none"
    /\ call' = "blob"
    /\ result' = parse_code_requirement_blob(data)
    /\ UNCHANGED data

\* CodeRequirementValue::from(data)
Call_CodeRequirementValue_from ==
    /\ call = "none"
    /\ call' = "value"
    /\ result' = Returned(CodeRequirementValue_from(data))
    /\ UNCHANGED data

\* the expression decoded from the input is formatted: expression.to_string()
Call_to_string ==
    /\ call = "none"
    /\ IsOk(CodeRequirementExpression_from_bytes(data))
    /\ call' = "to_string"
    /\ result' = Display_CodeRequirementExpression(
                      CodeRequirementExpression_from_bytes(data).value)
    /\ UNCHANGED data

Next ==
    \/ Call_read_data
    \/ Call_match_from_bytes
    \/ Call_expression_from_bytes
    \/ Call_parse_code_requirements
    \/ Call_parse_code_requirement_blob
    \/ Call_CodeRequirementValue_from
    \/ Call_to_string

Spec == Init /\ [][Next]_vars

-----------------------------------------------------------------------------
(* What the claims read off an input, computed from the bytes alone *)

\* the bytes consumed by a successful call
Consumed == Len(data) - Len(result.rest)

\* the u32 at offset, as a length: its true value when below 2^16, and a
\* value beyond every input otherwise
LengthAt(s, offset) ==
    IF s[offset + 1] = 0 /\ s[offset + 2] = 0
    THEN s[offset + 3] * 256 + s[offset + 4]
    ELSE 65536

\* the 24 bit opcode value of the word at offset
OpValueAt(s, offset) ==
    s[offset + 2] * 65536 + s[offset + 3] * 256 + s[offset + 4]

\* the padding of a block with payload length n
PadOf(n) == (4 - ((4 + n) % 4)) % 4

\* the room a block at offset takes: length word, payload, padding
BlockSpan(s, offset) == 4 + LengthAt(s, offset) + PadOf(LengthAt(s, offset))

\* the block at offset is there in full, padding included
BlockPresent(s, offset) ==
    /\ offset + 4 <= Len(s)
    /\ offset + BlockSpan(s, offset) <= Len(s)

BlockPayload(s, offset) == SubSeq(s, offset + 5, offset + 4 + LengthAt(s, offset))

-----------------------------------------------------------------------------
\* C1: every call of parse_code_requirements, CodeRequirementExpression::
\* from_bytes and CodeRequirementMatchExpression::from_bytes ends with a
\* decoded value and a tail or with an error value; none aborts.
C1_ValueOrError ==
    call \in {"list", "expression", "match"} => result.tag \in {"Ok", "Err"}

\* C2: a block whose length word declares more bytes than follow it (in
\* read_data, or the digest of AnchorCertificateHash) makes the decode fail
\* with the Scroll error value.
C2_TruncatedIsScroll ==
    /\ (call = "read_data" /\ Len(data) >= 4
            /\ LengthAt(data, 0) > Len(data) - 4)
          => result = Err(Scroll)
    /\ (call = "expression" /\ Len(data) >= 12 /\ OpValueAt(data, 0) = 4
            /\ LengthAt(data, 8) > Len(data) - 12)
          => result = Err(Scroll)

\* C3: a successful read_data on D with length word L returns D[4 .. 4+L) as
\* the payload and D[4+L+pad ..) as the remainder, pad = (-(4+L)) mod 4: the
\* bytes consumed are a multiple of 4, pad is 0 when L is a multiple of 4 and
\* 3 when L mod 4 = 1.
C3_ReadDataLayout ==
    (call = "read_data" /\ IsOk(result)) =>
        LET L == LengthAt(data, 0)
            pad == PadOf(L)
        IN  /\ 4 + L + pad <= Len(data)
            /\ result.value = SubSeq(data, 5, 4 + L)
            /\ result.rest = SubSeq(data, 4 + L + pad + 1, Len(data))
            /\ Consumed = 4 + L + pad
            /\ Consumed % 4 = 0
            /\ pad \in 0..3
            /\ (L % 4 = 0 => pad = 0)
            /\ (L % 4 = 1 => pad = 3)

C3_Witness ==
    /\ call = "read_data"
    /\ IsOk(result)
    /\ Len(result.value) = 5
    /\ Len(result.rest) = 1

C5_TailAligned ==
    (call = "expression" /\ IsOk(result)) => Consumed % 4 = 0

-----------------------------------------------------------------------------
\* the offsets of the opcode words the expression decoder reads in s (which
\* starts at offset base of the input): the first word and, below And, Or
\* and Not, those of the operands
RECURSIVE OpcodeWordOffsets(_, _)
OpcodeWordOffsets(s, base) ==
    IF Len(s) < 4 THEN {}
    ELSE LET v == OpValueAt(s, 0)
             body == SubSeq(s, 5, Len(s))
             a == CodeRequirementExpression_from_bytes(body)
         IN  {base} \cup
             (IF v \in {6, 7, 9} THEN OpcodeWordOffsets(body, base + 4) ELSE {}) \cup
             (IF v \in {6, 7} /\ IsOk(a)
              THEN OpcodeWordOffsets(a.rest, base + Len(s) - Len(a.rest))
              ELSE {})

\* the same for the first n expressions of a list
RECURSIVE ElementOpcodeOffsets(_, _, _)
ElementOpcodeOffsets(s, base, n) ==
    IF n = 0 THEN {}
    ELSE LET e == CodeRequirementExpression_from_bytes(s)
         IN  OpcodeWordOffsets(s, base) \cup
             (IF IsOk(e)
              THEN ElementOpcodeOffsets(e.rest, base + Len(s) - Len(e.rest), n - 1)
              ELSE {})

ListOpcodeOffsets(s) ==
    IF Len(s) < 4 THEN {}
    ELSE ElementOpcodeOffsets(SubSeq(s, 5, Len(s)), 4, LengthAt(s, 0))

SetByte(s, offset, b) == [s EXCEPT ![offset + 1] = b]

\* the flag bytes tried at every opcode word of every input: no bit, each
\* bit alone, every bit
FlagProbes == {0, 1, 2, 4, 8, 16, 32, 64, 128, 255}

\* the inputs on which every flag byte 0..255 is tried
MaxFlagSweepLen == 8

\* C6: the high byte of an opcode word does not influence decoding: with the
\* high byte of any opcode word replaced by f the outcome (tree and tail, or
\* error) is the one of the input as given; for every f in 0..255 on the
\* inputs of up to MaxFlagSweepLen bytes, for the f in FlagProbes on all.
C6_FlagsIgnored ==
    /\ call = "expression" =>
          \A o \in OpcodeWordOffsets(data, 0) :
              \A f \in (IF Len(data) <= MaxFlagSweepLen THEN 0..255 ELSE FlagProbes) :
                  CodeRequirementExpression_from_bytes(SetByte(data, o, f)) = result
    /\ call = "list" =>
          \A o \in ListOpcodeOffsets(data) :
              \A f \in (IF Len(data) <= MaxFlagSweepLen THEN 0..255 ELSE FlagProbes) :
                  parse_code_requirements(SetByte(data, o, f)) = result

\* And(False, True) with the SKIP flag on the second operand
C6_Witness ==
    /\ call = "expression"
    /\ IsOk(result)
    /\ result.value = <<"And", <<"False">>, <<"True">>>>
    /\ data[9] = 128

-----------------------------------------------------------------------------
\* C7: when the low 24 bits v of the opcode word are not in 0..23, decoding
\* the expression fails with UnknownOpCode(v), whatever follows the word,
\* also when nothing follows.
C7_UnknownOpCode ==
    (call = "expression" /\ Len(data) >= 4 /\ OpValueAt(data, 0) > 23) =>
        result = Err(<<"UnknownOpCode", OpValueAt(data, 0)>>)

\* opcode value 2^8 with bytes after it
C7_Witness ==
    /\ call = "expression"
    /\ Len(data) > 4
    /\ result = Err(<<"UnknownOpCode", 256>>)

\* the u32 at offset as its two 16 bit digits
CodeAt(s, offset) ==
    [hi |-> s[offset + 1] * 256 + s[offset + 2],
     lo |-> s[offset + 3] * 256 + s[offset + 4]]

UnknownCodeAt(s, offset) ==
    /\ offset + 4 <= Len(s)
    /\ ~(s[offset + 1] = 0 /\ s[offset + 2] = 0 /\ s[offset + 3] = 0
            /\ s[offset + 4] <= 14)

\* the opcodes whose payload ends with a match expression, and where their
\* block starts: after the opcode word, or after the slot
KeyOffset(v) == IF v \in {10, 16} THEN 4 ELSE 8

\* the opcodes whose block before the match expression is text
TextKeyOpValues == {10, 11, 16}

\* the match expression of the expression at the start of s begins at this
\* offset and the decoder gets there
ReachesMatchAt(s, offset) ==
    /\ Len(s) >= 4
    /\ OpValueAt(s, 0) \in {10, 11, 14, 16, 17, 22}
    /\ BlockPresent(s, KeyOffset(OpValueAt(s, 0)))
    /\ offset = KeyOffset(OpValueAt(s, 0)) + BlockSpan(s, KeyOffset(OpValueAt(s, 0)))
    /\ OpValueAt(s, 0) \in TextKeyOpValues
          => from_utf8_ok(BlockPayload(s, KeyOffset(OpValueAt(s, 0))))

\* C8: a match-type code c that is not in 0..14 makes the match-expression
\* decoder fail with UnknownMatch(c), c in full 32 bits, and the decode of
\* the enclosing expression (opcodes 10, 11, 14, 16, 17, 22) fails with the
\* same error.
C8_UnknownMatch ==
    /\ (call = "match" /\ UnknownCodeAt(data, 0)) =>
          result = Err(<<"UnknownMatch", CodeAt(data, 0)>>)
    /\ call = "expression" =>
          \A m \in 0..Len(data) :
              (ReachesMatchAt(data, m) /\ UnknownCodeAt(data, m)) =>
                  result = Err(<<"UnknownMatch", CodeAt(data, m)>>)

\* CertificateFieldDate whose match code is 2^32 - 1
C8_Witness ==
    /\ call = "expression"
    /\ Len(data) >= 4
    /\ OpValueAt(data, 0) = 22
    /\ result = Err(<<"UnknownMatch", [hi |-> 65535, lo |-> 65535]>>)

\* the text blocks of the expression at the start of s: <<offset, message>>,
\* in the order they are read; a block counts when the decoder gets to it
TextBlocksOf(s) ==
    IF Len(s) < 4 THEN {}
    ELSE LET v == OpValueAt(s, 0)
         IN  CASE v = 2 -> {<<4, "identifier value not a UTF-8 string">>}
               [] v = 18 -> {<<4, "named anchor isn't UTF-8">>}
               [] v = 19 -> {<<4, "named code isn't UTF-8">>}
               [] v = 10 -> {<<4, "key is not valid UTF-8">>}
               [] v = 16 -> {<<4, "entitlement key is not UTF-8">>}
               [] v = 11 -> {<<8, "certificate field is not valid UTF-8">>}
               [] v = 5 ->
                    {<<4, "info key not a UTF-8 string">>} \cup
                    (IF BlockPresent(s, 4) /\ from_utf8_ok(BlockPayload(s, 4))
                     THEN {<<4 + BlockSpan(s, 4), "info value not a UTF-8 string">>}
                     ELSE {})
               [] OTHER -> {}

\* C9: for every opcode with a text field (Identifier, InfoKeyValueLegacy key
\* and value, InfoPlistKeyField key, CertificateField field name,
\* EntitlementsKey key, NamedAnchor, NamedCode) a block that is there in full
\* (length word, payload, padding) and is not valid UTF-8 makes the decode
\* fail with Malformed and that field's static message; no expression is
\* returned.
C9_NotUtf8IsMalformed ==
    call = "expression" =>
        \A b \in TextBlocksOf(data) :
            (BlockPresent(data, b[1]) /\ ~from_utf8_ok(BlockPayload(data, b[1])))
                => result = Err(<<"Malformed", b[2]>>)

\* InfoKeyValueLegacy with a valid key and a value that is not UTF-8
C9_Witness ==
    /\ call = "expression"
    /\ result = Err(<<"Malformed", "info value not a UTF-8 string">>)

\* the outcomes of n successive expression decodes, each from the tail of
\* the one before; <<>> when one of them does not succeed
RECURSIVE DecodeChain(_, _)
DecodeChain(s, n) ==
    IF n = 0 THEN <<>>
    ELSE LET e == CodeRequirementExpression_from_bytes(s)
             l == DecodeChain(e.rest, n - 1)
         IN  IF ~IsOk(e) THEN <<>>
             ELSE IF n > 1 /\ l = <<>> THEN <<>>
             ELSE <<e>> \o l

\* C10: parse_code_requirements on a count N followed by at least N
\* well-formed expressions returns exactly the N expressions in input order,
\* each decoded from where the one before ended, and as tail the bytes after
\* the N-th (trailing bytes are returned); with N = 0 the empty list and
\* every byte after the count word.
C10_ListInOrder ==
    (call = "list" /\ Len(data) >= 4) =>
        LET N == LengthAt(data, 0)
            chain == DecodeChain(SubSeq(data, 5, Len(data)), N)
        IN  /\ N = 0 => result = Ok(<<>>, SubSeq(data, 5, Len(data)))
            /\ (N > 0 /\ Len(chain) = N) =>
                  /\ IsOk(result)
                  /\ Len(result.value) = N
                  /\ \A i \in 1..N : result.value[i] = chain[i].value
                  /\ result.rest = chain[N].rest

\* two different expressions and trailing bytes
C10_Witness ==
    /\ call = "list"
    /\ IsOk(result)
    /\ Len(result.value) = 2
    /\ result.value[1] # result.value[2]
    /\ Len(result.rest) = 1

-----------------------------------------------------------------------------
\* the outcome of the first of n successive expression decodes, each from the
\* tail of the one before, that does not succeed; tag "None" when all do
RECURSIVE FirstFailure(_, _)
FirstFailure(s, n) ==
    IF n = 0 THEN [tag |-> "None"]
    ELSE LET e == CodeRequirementExpression_from_bytes(s)
         IN  IF ~IsOk(e) THEN e ELSE FirstFailure(e.rest, n - 1)

\* the call returned an error value and nothing else
OnlyError(r, e) == r = e /\ DOMAIN r = {"tag", "error"}

\* C11: when one of the N expressions of a list does not decode, among them
\* the one looked for after the input has run out of expressions,
\* parse_code_requirements returns no list and no tail, and when that decode
\* (the first in input order that does not succeed) returns an error the
\* list decode returns this error and nothing else; likewise And, Or and Not
\* return the error of their first operand that fails and no tree.
C11_FirstErrorOnly ==
    /\ (call = "list" /\ Len(data) >= 4) =>
          LET f == FirstFailure(SubSeq(data, 5, Len(data)), LengthAt(data, 0))
          IN  f.tag # "None" =>
                  /\ ~IsOk(result)
                  /\ IsErr(f) => OnlyError(result, f)
    /\ (call = "expression" /\ Len(data) >= 4 /\ OpValueAt(data, 0) \in {6, 7, 9}) =>
          LET a == CodeRequirementExpression_from_bytes(SubSeq(data, 5, Len(data)))
              b == CodeRequirementExpression_from_bytes(a.rest)
          IN  /\ ~IsOk(a) => (~IsOk(result) /\ (IsErr(a) => OnlyError(result, a)))
              /\ (IsOk(a) /\ OpValueAt(data, 0) \in {6, 7} /\ ~IsOk(b)) =>
                    (~IsOk(result) /\ (IsErr(b) => OnlyError(result, b)))

\* a count of 2 and one expression, which takes every byte after the count
C11_Witness ==
    /\ call = "list"
    /\ Len(data) >= 4
    /\ LengthAt(data, 0) = 2
    /\ IsOk(CodeRequirementExpression_from_bytes(SubSeq(data, 5, Len(data))))
    /\ CodeRequirementExpression_from_bytes(SubSeq(data, 5, Len(data))).rest = <<>>
    /\ result = Err(<<"Scroll">>)

-----------------------------------------------------------------------------
\* the header of a blob is sound: the requirement magic fa de 0c 00 and a
\* total length that is the length of the input
SoundBlobHeader(s) ==
    /\ Len(s) >= 8
    /\ SubSeq(s, 1, 4) = <<250, 222, 12, 0>>
    /\ LengthAt(s, 4) = Len(s)

\* C12: parse_code_requirement_blob on an input whose magic is not
\* 0xfade0c00, or whose header the helper rejects otherwise (fewer than 8
\* bytes, a length that does not cover the header or runs past the input),
\* returns Malformed("malformed blob header") whatever follows the header:
\* the payload is not decoded.
C12_BadHeaderIsMalformed ==
    (call = "blob" /\ (\/ Len(data) < 8
                       \/ SubSeq(data, 1, 4) # <<250, 222, 12, 0>>
                       \/ LengthAt(data, 4) < 8
                       \/ LengthAt(data, 4) > Len(data)))
        => result = Err(<<"Malformed", "malformed blob header">>)

\* another magic in front of a payload whose list decode would abort
C12_Witness ==
    /\ call = "blob"
    /\ Len(data) >= 8
    /\ SubSeq(data, 1, 4) = <<250, 222, 12, 1>>
    /\ IsPanic(parse_code_requirements(SubSeq(data, 9, Len(data))))
    /\ result = Err(<<"Malformed", "malformed blob header">>)

\* C13: on a sound header followed by a payload P,
\* parse_code_requirement_blob returns what parse_code_requirements returns
\* on P: the same list and tail, or the same error.
C13_BlobIsListOfPayload ==
    (call = "blob" /\ SoundBlobHeader(data)) =>
        result = parse_code_requirements(SubSeq(data, 9, Len(data)))

\* a blob of two expressions
C13_Witness ==
    /\ call = "blob"
    /\ SoundBlobHeader(data)
    /\ IsOk(result)
    /\ Len(result.value) = 2

-----------------------------------------------------------------------------
\* the entry point named by call, applied to s
Decode(entry, s) ==
    CASE entry = "read_data" -> read_data(s)
      [] entry = "match" -> CodeRequirementMatchExpression_from_bytes(s)
      [] entry = "expression" -> CodeRequirementExpression_from_bytes(s)
      [] entry = "list" -> parse_code_requirements(s)

\* C14: when decoding B (an expression, a match expression or a list)
\* succeeds with tree T and tail R, R is the end of B, at least one byte was
\* consumed, and decoding the consumed bytes alone (B without R) succeeds
\* with the same T and an empty tail.
C14_SelfDelimiting ==
    (call \in {"expression", "match", "list"} /\ IsOk(result)) =>
        /\ Len(result.rest) < Len(data)
        /\ result.rest = SubSeq(data, Consumed + 1, Len(data))
        /\ Decode(call, SubSeq(data, 1, Consumed)) = Ok(result.value, <<>>)

\* a connective over two blocks with padding, followed by trailing bytes
C14_Witness ==
    /\ call = "expression"
    /\ IsOk(result)
    /\ result.value[1] \in {"And", "Or"}
    /\ result.value[2][1] = "Identifier"
    /\ result.value[3][1] = "CodeDirectoryHash"
    /\ Len(result.rest) = 5

-----------------------------------------------------------------------------
(* The serialization of a tree, after the layouts documented with the       *)
(* variants of CodeRequirementExpression and CodeRequirementMatchExpression *)
(* and the module documentation: variable length data is a length word and  *)
(* the bytes, padded with NUL bytes to the next 4 byte boundary.            *)

EncodeI32(n) ==
    LET hi == (n \div 65536) % 65536
        lo == n % 65536
    IN  <<hi \div 256, hi % 256, lo \div 256, lo % 256>>

EncodeU32(v) == <<v.hi \div 256, v.hi % 256, v.lo \div 256, v.lo % 256>>

EncodeI64(d) ==
    <<d[1] \div 256, d[1] % 256, d[2] \div 256, d[2] % 256,
      d[3] \div 256, d[3] % 256, d[4] \div 256, d[4] % 256>>

MatchCodeOf(typ) == CHOOSE c \in 0..14 : MatchTypeName(c) = typ

OpValueOf(variant) == CHOOSE v \in 0..23 : VariantOf(RequirementOpCodeName(v)) = variant

EncodeMatch(m) ==
    BE32(MatchCodeOf(m[1])) \o
        (IF m[1] \in {"Exists", "Absent"} THEN <<>>
         ELSE IF m[1] \in ValueMatchTypes THEN Block(m[2][2])
         ELSE EncodeI64(m[2]))

RECURSIVE Encode(_)
Encode(t) ==
    LET v == t[1]
    IN  BE32(OpValueOf(v)) \o
        (CASE v \in {"Identifier", "NamedAnchor", "NamedCode", "CodeDirectoryHash"} ->
                  Block(t[2])
           [] v = "AnchorCertificateHash" -> EncodeI32(t[2]) \o Block(t[3])
           [] v = "InfoKeyValueLegacy" -> Block(t[2]) \o Block(t[3])
           [] v \in {"And", "Or"} -> Encode(t[2]) \o Encode(t[3])
           [] v = "Not" -> Encode(t[2])
           [] v \in {"InfoPlistKeyField", "EntitlementsKey"} ->
                  Block(t[2]) \o EncodeMatch(t[3])
           [] v \in {"CertificateField", "CertificateGeneric", "CertificatePolicy",
                     "CertificateFieldDate"} ->
                  EncodeI32(t[2]) \o Block(t[3]) \o EncodeMatch(t[4])
           [] v = "CertificateTrusted" -> EncodeI32(t[2])
           [] v = "Platform" -> EncodeU32(t[2])
           [] OTHER -> <<>>)

\* trees of every variant
SampleTexts == {t \in TextPayloads : from_utf8_ok(t)}

SampleKeys == {k \in KeyPayloads : from_utf8_ok(k)}

SampleSlots == {I32At(w, 0) : w \in SlotWords}

SampleMatches ==
    {<<"Exists">>, <<"Absent">>,
     <<"Equal", <<"String", <<118, 97, 108, 117, 101>>>>>>,
     <<"GreaterThanEqual", <<"Bytes", <<1, 97>>>>>>,
     <<"On", <<0, 0, 24671, 51760>>>>}

SampleLeaves ==
    {<<v>> : v \in NoPayloadOpCodes}
      \cup {<<v, t>> : v \in {"Identifier", "NamedAnchor", "NamedCode"}, t \in SampleTexts}
      \cup {<<"AnchorCertificateHash", n, d>> : n \in SampleSlots, d \in DigestPayloads}
      \cup {<<"InfoKeyValueLegacy", k, t>> : k \in SampleKeys, t \in SampleKeys}
      \cup {<<"CodeDirectoryHash", d>> : d \in DigestPayloads}
      \cup {<<v, k, m>> : v \in {"InfoPlistKeyField", "EntitlementsKey"},
                          k \in SampleKeys, m \in SampleMatches}
      \cup {<<"CertificateField", n, k, m>> :
              n \in {-1, 1}, k \in SampleKeys, m \in SampleMatches}
      \cup {<<v, n, k, m>> :
              v \in {"CertificateGeneric", "CertificatePolicy", "CertificateFieldDate"},
              n \in {-1, 1}, k \in KeyPayloads, m \in SampleMatches}
      \cup {<<"CertificateTrusted", n>> : n \in SampleSlots}
      \cup {<<"Platform", U32At(w, 0)>> : w \in SlotWords}

SampleOperands ==
    {<<"False">>, <<"True">>, <<"Identifier", <<97>>>>,
     <<"CodeDirectoryHash", <<222, 173>>>>, <<"Not", <<"True">>>>}

WellFormedTrees ==
    SampleLeaves
      \cup {<<v, a, b>> : v \in {"And", "Or"}, a \in SampleOperands, b \in SampleOperands}
      \cup {<<"Not", a>> : a \in SampleOperands}

\* the count 1 and the serialization of a tree, with the tree
WellFormedLists == {<<BE32(1) \o Encode(t), t>> : t \in WellFormedTrees}

\* C15: for every opcode 0..23, parse_code_requirements on the count 1
\* followed by the serialization of one expression of that opcode, and
\* nothing else, returns the list of that one expression, variant and
\* payload fields as serialized, and an empty tail.
C15_OneExpressionExactly ==
    call = "list" =>
        \A p \in WellFormedLists : data = p[1] => result = Ok(<<p[2]>>, <<>>)

-----------------------------------------------------------------------------
\* the names of the match types by code, as the claim lists them
ValueVariantOfCode(c) ==
    CASE c = 1 -> "Equal" [] c = 2 -> "Contains" [] c = 3 -> "BeginsWith"
      [] c = 4 -> "EndsWith" [] c = 5 -> "LessThan" [] c = 6 -> "GreaterThan"
      [] c = 7 -> "LessThanEqual" [] c = 8 -> "GreaterThanEqual"

TimestampVariantOfCode(c) ==
    CASE c = 9 -> "On" [] c = 10 -> "Before" [] c = 11 -> "After"
      [] c = 12 -> "OnOrBefore" [] c = 13 -> "OnOrAfter"

\* the big-endian number in the 8 bytes at offset, as four 16 bit digits
SecondsAt(s, offset) ==
    [i \in 1..4 |-> s[offset + 2 * i - 1] * 256 + s[offset + 2 * i]]

\* C16: a match expression that decodes consumed exactly: the 4 byte code
\* for the codes 0 (Exists) and 14 (Absent); the code and one padded
\* length-prefixed block for the codes 1..8, and the variant is the one of
\* the code with the payload of the block; the code and 8 bytes for the
\* codes 9..13, and the variant is the one of the code with the instant
\* that is the big-endian signed 64 bit number of seconds in those 8 bytes.
\* Exists and Absent always decode, and a comparison whose block is there in
\* full does.
C16_MatchConsumption ==
    (call = "match" /\ Len(data) >= 4 /\ LengthAt(data, 0) <= 14) =>
        LET c == LengthAt(data, 0)
        IN  /\ c = 0 => result = Ok(<<"Exists">>, SubSeq(data, 5, Len(data)))
            /\ c = 14 => result = Ok(<<"Absent">>, SubSeq(data, 5, Len(data)))
            /\ (c \in 1..8 /\ IsOk(result)) =>
                  /\ Consumed = 4 + BlockSpan(data, 4)
                  /\ result.value[1] = ValueVariantOfCode(c)
                  /\ result.value[2][2] = BlockPayload(data, 4)
            /\ (c \in 1..8 /\ BlockPresent(data, 4)) => IsOk(result)
            /\ (c \in 9..13 /\ IsOk(result)) =>
                  /\ Consumed = 12
                  /\ result.value = <<TimestampVariantOfCode(c), SecondsAt(data, 4)>>

\* GreaterThanEqual with a block of 5 bytes and its 3 bytes of padding,
\* followed by another word
C16_Witness ==
    /\ call = "match"
    /\ IsOk(result)
    /\ result.value[1] = "GreaterThanEqual"
    /\ Len(result.value[2][2]) = 5
    /\ Consumed = 16
    /\ Len(result.rest) = 4

-----------------------------------------------------------------------------
\* the ASCII letters and digits, the ASCII whitespace (space, tab, line
\* feed, form feed, carriage return) and the ASCII punctuation: the bytes
\* 0x20..0x7e and four control bytes
PrintableAscii == (32..126) \cup {9, 10, 12, 13}

ClassOf(bytes) ==
    IF \A i \in 1..Len(bytes) : bytes[i] \in PrintableAscii THEN "String" ELSE "Bytes"

\* C17: the value classifier returns, for every byte block, the empty one
\* included, String of the same bytes when every byte is an ASCII letter,
\* digit, whitespace or punctuation, and Bytes of the same bytes otherwise;
\* it always returns.  A value comparison (match codes 1..8) whose block is
\* there in full decodes to the class of its payload and consumes the code
\* and the padded block, whichever class that is.
C17_ClassifierTotal ==
    /\ call = "value" => result = [tag |-> "Returned", value |-> <<ClassOf(data), data>>]
    /\ (call = "match" /\ Len(data) >= 4 /\ LengthAt(data, 0) \in 1..8
            /\ BlockPresent(data, 4)) =>
          /\ IsOk(result)
          /\ result.value[2] = <<ClassOf(BlockPayload(data, 4)), BlockPayload(data, 4)>>
          /\ Consumed = 4 + BlockSpan(data, 4)

\* a letter and a vertical tab: a control byte that is not whitespace
C17_Witness ==
    /\ call = "value"
    /\ data = <<97, 11>>
    /\ result.value = <<"Bytes", <<97, 11>>>>

-----------------------------------------------------------------------------
\* a tree and the trees below its connectives
RECURSIVE SubTrees(_)
SubTrees(t) ==
    {t} \cup (IF t[1] \in {"And", "Or"} THEN SubTrees(t[2]) \cup SubTrees(t[3])
              ELSE IF t[1] = "Not" THEN SubTrees(t[2])
              ELSE {})

\* the text made of one literal piece
Piece(p) == <<<<"lit", p>>>>

\* C18: formatting a decoded tree always returns a text, and at every depth
\* the text of And(a, b) is "(" text(a) ") and (" text(b) ")", the text of
\* Or(a, b) is "(" text(a) ") or (" text(b) ")", the text of Not(e) is
\* "!(" text(e) ")", the text of False is "never" and of True "always".
C18_RenderingTotalCompositional ==
    call = "to_string" =>
        LET tree == CodeRequirementExpression_from_bytes(data).value
            text(t) == Display_CodeRequirementExpression(t).value
        IN  /\ result.tag = "Returned"
            /\ \A u \in SubTrees(tree) :
                  /\ Display_CodeRequirementExpression(u).tag = "Returned"
                  /\ u[1] = "And" =>
                        text(u) = Piece("(") \o text(u[2]) \o Piece(") and (")
                                      \o text(u[3]) \o Piece(")")
                  /\ u[1] = "Or" =>
                        text(u) = Piece("(") \o text(u[2]) \o Piece(") or (")
                                      \o text(u[3]) \o Piece(")")
                  /\ u[1] = "Not" =>
                        text(u) = Piece("!(") \o text(u[2]) \o Piece(")")
                  /\ u[1] = "False" => text(u) = Piece("never")
                  /\ u[1] = "True" => text(u) = Piece("always")

-----------------------------------------------------------------------------
\* the opcodes by the field that follows the opcode word
SlotOpValues == {4, 11, 12, 14, 17, 22}

BlockFirstOpValues == {2, 5, 8, 10, 16, 18, 19}

\* the opcodes with a length word after the slot
SlotBlockOpValues == {4, 11, 14, 17, 22}

\* C19: a fixed-width number that is not there in full makes the decode
\* fail with the Scroll error: fewer than 4 bytes at the count of a list,
\* at an opcode word (of an expression, of the first list element, of the
\* first operand of And, Or, Not), at a match-type code (alone or after the
\* key block of an expression), at a slot number, at a Platform value, at
\* the length word of a block (first field, after a slot, the value of
\* InfoKeyValueLegacy, the value of a comparison); fewer than 8 bytes at the
\* timestamp of the match codes 9..13.
C19_ShortReadIsScroll ==
    LET n == Len(data)
        v == OpValueAt(data, 0)
        c == LengthAt(data, 0)
        scroll == result = Err(<<"Scroll">>)
    IN  /\ (call \in {"list", "expression", "match", "read_data"} /\ n < 4) => scroll
        /\ (call = "list" /\ n >= 4 /\ n < 8 /\ c >= 1) => scroll
        /\ (call = "expression" /\ n >= 4 /\ n < 8
                /\ v \in SlotOpValues \cup BlockFirstOpValues \cup {20, 6, 7, 9}) => scroll
        /\ (call = "expression" /\ n >= 8 /\ n < 12 /\ v \in SlotBlockOpValues) => scroll
        /\ (call = "expression" /\ n >= 8 /\ v = 5 /\ BlockPresent(data, 4)
                /\ from_utf8_ok(BlockPayload(data, 4))
                /\ n < 4 + BlockSpan(data, 4) + 4) => scroll
        /\ call = "expression" =>
              \A m \in 0..n :
                  ReachesMatchAt(data, m) =>
                      /\ n < m + 4 => scroll
                      /\ (n >= m + 4 /\ n < m + 8 /\ LengthAt(data, m) \in 1..8) => scroll
                      /\ (n >= m + 4 /\ n < m + 12 /\ LengthAt(data, m) \in 9..13) => scroll
        /\ (call = "match" /\ n >= 4 /\ n < 8 /\ c \in 1..8) => scroll
        /\ (call = "match" /\ n >= 4 /\ n < 12 /\ c \in 9..13) => scroll

\* a timestamp comparison with 7 of the 8 bytes of its timestamp
C19_Witness ==
    /\ call = "match"
    /\ Len(data) = 11
    /\ LengthAt(data, 0) \in 9..13
    /\ result = Err(<<"Scroll">>)

-----------------------------------------------------------------------------
\* the two's complement number in the 4 bytes at offset
SignedAt(s, offset) ==
    (IF s[offset + 1] >= 128 THEN s[offset + 1] - 256 ELSE s[offset + 1]) * 16777216
        + s[offset + 2] * 65536 + s[offset + 3] * 256 + s[offset + 4]

\* the tree decoded from the expression at offset of s carries the number
\* after its opcode word: signed for the opcodes with a slot, unsigned (both
\* halves of the word as they are) for Platform
NumberFieldOk(tree, s, offset) ==
    LET v == OpValueAt(s, offset)
        ones == SubSeq(s, offset + 5, offset + 8) = <<255, 255, 255, 255>>
    IN  /\ v \in SlotOpValues =>
              /\ tree[2] = SignedAt(s, offset + 4)
              /\ tree[2] >= -2147483647 - 1
              /\ tree[2] <= 2147483647
              /\ ones => tree[2] = -1
        /\ v = 20 =>
              /\ tree[2] = CodeAt(s, offset + 4)
              /\ ones => tree[2] = [hi |-> 65535, lo |-> 65535]

\* where the i-th expression of a decoded list starts
ElementStart(s, i) ==
    IF i = 1 THEN 4
    ELSE Len(s) - Len(DecodeChain(SubSeq(s, 5, Len(s)), i - 1)[i - 1].rest)

\* C20: the slot of the opcodes 4, 11, 12, 14, 17, 22 is the two's
\* complement signed number in the 4 bytes after the opcode word, within
\* -2^31 .. 2^31 - 1, and ff ff ff ff is the slot -1; the value of Platform
\* (opcode 20) is the unsigned number in those bytes, and ff ff ff ff is
\* 4294967295 (65535 * 2^16 + 65535); for a decoded expression and for each
\* expression of a decoded list.
C20_SlotSignedPlatformUnsigned ==
    /\ (call = "expression" /\ IsOk(result)) => NumberFieldOk(result.value, data, 0)
    /\ (call = "list" /\ IsOk(result)) =>
          \A i \in 1..Len(result.value) :
              NumberFieldOk(result.value[i], data, ElementStart(data, i))

\* the list of CertificateTrusted and Platform, both with ff ff ff ff
C20_Witness ==
    /\ call = "list"
    /\ IsOk(result)
    /\ result.value = << <<"CertificateTrusted", -1>>,
                          <<"Platform", [hi |-> 65535, lo |-> 65535]>> >>

-----------------------------------------------------------------------------
\* C21: of the calls of from_bytes made while an expression is decoded,
\* each nested call starts at least 4 bytes further into the input than the
\* call that makes it, none starts beyond the end of the input, and the
\* number of calls that enclose a call never exceeds the number of 4 byte
\* words of the input.
C21_DepthBoundedByWords ==
    call = "expression" =>
        \A c \in from_bytes_calls(data, 0, 0, 0) :
            /\ c[2] >= 1 => c[1] >= c[3] + 4
            /\ c[1] <= Len(data)
            /\ c[1] >= 4 * c[2]
            /\ c[2] <= Len(data) \div 4

\* three Not words and nothing else: the innermost call is enclosed by
\* three calls, as many as the input has words
C21_Witness ==
    /\ call = "expression"
    /\ Len(data) = 12
    /\ <<12, 3, 8>> \in from_bytes_calls(data, 0, 0, 0)

-----------------------------------------------------------------------------
\* the offset of the value block of the match expression at offset m of s,
\* when its code is one of 1..8
MatchValueBlocks(s, m) ==
    IF Len(s) >= m + 4 /\ CodeAt(s, m).hi = 0 /\ CodeAt(s, m).lo \in 1..8
    THEN {m + 4}
    ELSE {}

\* the offsets of the padded blocks of the value decoded from the start of
\* s by the entry point: the block of read_data, the value of a match
\* expression, the blocks of an expression that is not And, Or or Not
PaddedBlocks(entry, s) ==
    IF entry = "read_data" THEN {0}
    ELSE IF entry = "match" THEN MatchValueBlocks(s, 0)
    ELSE IF entry # "expression" \/ Len(s) < 4 THEN {}
    ELSE LET v == OpValueAt(s, 0)
             key == KeyOffset(v)
         IN  IF v \in {2, 8, 18, 19} THEN {4}
             ELSE IF v = 5
             THEN {4} \cup (IF BlockPresent(s, 4) THEN {4 + BlockSpan(s, 4)} ELSE {})
             ELSE IF v \in {10, 11, 14, 16, 17, 22}
             THEN {key} \cup (IF BlockPresent(s, key)
                              THEN MatchValueBlocks(s, key + BlockSpan(s, key))
                              ELSE {})
             ELSE {}

\* the offsets of the padding bytes of those blocks that are in s
PaddingOffsets(entry, s) ==
    {p \in 0..(Len(s) - 1) :
        \E b \in PaddedBlocks(entry, s) :
            /\ b + 4 <= Len(s)
            /\ LengthAt(s, b) < 65536
            /\ p >= b + 4 + LengthAt(s, b)
            /\ p < b + BlockSpan(s, b)}

\* the values written over a padding byte
PaddingProbes == {1, 97, 128, 255}

\* s with every byte at the offsets in ps set to b
SetBytes(s, ps, b) == [i \in 1..Len(s) |-> IF (i - 1) \in ps THEN b ELSE s[i]]

\* C22: padding bytes are not looked at: with any one padding byte of a
\* padded block, or all of them, set to another value, the outcome (value and
\* tail, or error) is the one of the input as given.
C22_PaddingIgnored ==
    call \in {"read_data", "match", "expression"} =>
        /\ \A p \in PaddingOffsets(call, data) :
              \A b \in PaddingProbes :
                  Decode(call, SetByte(data, p, b)) = result
        /\ Decode(call, SetBytes(data, PaddingOffsets(call, data), 255)) = result

\* an expression with padding after each of two blocks, decoded with a tail
C22_Witness ==
    /\ call = "expression"
    /\ IsOk(result)
    /\ Len(result.rest) > 0
    /\ \E p, q \in PaddingOffsets(call, data) : q > p + 4

-----------------------------------------------------------------------------
\* C23: a timestamp match expression (codes 9..13) whose 8 bytes are there
\* never aborts the decode: a number of seconds outside the range of the
\* instants of the timestamp type gives an error value or an instant within
\* the range, and a number within the range gives the variant of the code
\* with the instant that many seconds after the Unix epoch and the tail
\* after the 8 bytes.
C23_TimestampRejectedOrClamped ==
    (call = "match" /\ Len(data) >= 12 /\ LengthAt(data, 0) \in 9..13) =>
        LET seconds == SecondsAt(data, 4)
        IN  /\ result.tag \in {"Ok", "Err"}
            /\ (~TimestampInRange(seconds) /\ IsOk(result))
                  => TimestampInRange(result.value[2])
            /\ TimestampInRange(seconds)
                  => result = Ok(<<TimestampVariantOfCode(LengthAt(data, 0)), seconds>>,
                                 SubSeq(data, 13, Len(data)))

-----------------------------------------------------------------------------
\* C24: an And or Or that decodes has as its left child the expression
\* decoded from the bytes right after the opcode word and as its right child
\* the expression decoded from the tail the left child left, which lies
\* further into the input; its own tail is the tail the right child left.
\* The words And, True, False decode to And(True, False).
C24_ChildrenInInputOrder ==
    /\ (call = "expression" /\ data = <<0, 0, 0, 6, 0, 0, 0, 1, 0, 0, 0, 0>>)
          => result = Ok(<<"And", <<"True">>, <<"False">>>>, <<>>)
    /\ (call = "expression" /\ IsOk(result) /\ OpValueAt(data, 0) \in {6, 7}) =>
        LET a == CodeRequirementExpression_from_bytes(SubSeq(data, 5, Len(data)))
            second == Len(data) - Len(a.rest)
            b == CodeRequirementExpression_from_bytes(
                     SubSeq(data, second + 1, Len(data)))
        IN  /\ IsOk(a)
            /\ second >= 8
            /\ a.rest = SubSeq(data, second + 1, Len(data))
            /\ IsOk(b)
            /\ result.value =
                  <<(IF OpValueAt(data, 0) = 6 THEN "And" ELSE "Or"), a.value, b.value>>
            /\ result.rest = b.rest

\* an Or of two different children, the left one with a payload, decoded
\* with a tail
C24_Witness ==
    /\ call = "expression"
    /\ IsOk(result)
    /\ result.value[1] = "Or"
    /\ Len(result.value[2]) > 1
    /\ result.value[2] # result.value[3]
    /\ Len(result.rest) > 0

-----------------------------------------------------------------------------
\* C25: an expression or a match expression that decodes leaves a tail that
\* is a suffix of its input and at least 4 bytes shorter, and the loop of a
\* list decode calls from_bytes at most once per 4 byte word of the input
\* and at most N times, whatever the declared count N.
C25_DecodesShortenInput ==
    /\ (call \in {"expression", "match"} /\ IsOk(result)) =>
          /\ Consumed >= 4
          /\ result.rest = SubSeq(data, Consumed + 1, Len(data))
    /\ (call = "list" /\ Len(data) >= 4) =>
          LET N == as_usize(U32At(data, 0))
              steps == parse_elements_steps(N, SliceFrom(data, 4))
          IN  /\ steps <= Len(data) \div 4
              /\ steps <= N

\* a list that declares 2^16 elements and holds three: the fourth call of
\* from_bytes ends the loop
C25_Witness ==
    /\ call = "list"
    /\ Len(data) = 16
    /\ U32At(data, 0) = [hi |-> 1, lo |-> 0]
    /\ parse_elements_steps(UsizeCap, SliceFrom(data, 4)) = 4
    /\ result = Err(Scroll)

-----------------------------------------------------------------------------
\* C26: when the L payload bytes of a block are all there, 4 + L is not a
\* multiple of 4 and the input ends before the padding is complete,
\* read_data returns by value: an error, or the payload with an empty
\* remainder.
C26_ShortPaddingReturns ==
    (call = "read_data" /\ Len(data) >= 4
        /\ 4 + LengthAt(data, 0) <= Len(data)
        /\ PadOf(LengthAt(data, 0)) > 0
        /\ Len(data) < BlockSpan(data, 0))
      => \/ IsErr(result)
         \/ result = Ok(BlockPayload(data, 0), <<>>)

=============================================================================
